---- MODULE Spec2Model ----
(***************************************************************************)
(* Model of sandbox/jorvis/convert_genbank_to_gff3.py: main() reads the    *)
(* GenBank records one by one, rebuilds the gene -> mRNA -> {CDS, exon}    *)
(* graph from the order of the features and prints each gene as GFF3.      *)
(***************************************************************************)
EXTENDS Integers, Sequences, FiniteSets, TLC

(* ---- bounds of the explored inputs ---- *)
\* records plus features read from the input file
MaxInput == 6

(* ---- the input alphabet ---- *)
NoTag == <<>>
\* two locus tags; the second reads like a synthesized transcript identifier
\* ("a.mRNA.1"), the tag most likely to collide with one
LocusTags == {<<"a">>, <<"a", ".mRNA.", "1">>}
MolIds == {"m1", "m2"}
\* feat.location: start, end and strand (1, -1, or 0 for None/unknown)
Unstranded == [fmin |-> 0, fmax |-> 9, strand |-> 0]
\* where the explored genes and transcripts lie
LocusLocations == { [fmin |-> 0, fmax |-> 9, strand |-> 1], Unstranded }
\* where the explored coding regions and other features lie
SegmentLocations ==
  { [fmin |-> 0, fmax |-> 4, strand |-> 1],
    [fmin |-> 6, fmax |-> 9, strand |-> -1],
    Unstranded }

\* a SeqFeature: type, location, and the two qualifiers main() reads; the
\* unstranded features are explored with one choice of qualifiers each
Features ==
  { f \in
      [type : {"gene", "mRNA"}, loc : LocusLocations,
       locus_tag : LocusTags \cup {NoTag}, product : {FALSE}]
      \cup
      [type : {"CDS"}, loc : SegmentLocations,
       locus_tag : {<<"a">>, NoTag}, product : BOOLEAN]
      \cup
      [type : {"misc"}, loc : SegmentLocations,
       locus_tag : {NoTag}, product : {FALSE}] :
    f.loc = Unstranded =>
      /\ f.product = FALSE
      /\ f.locus_tag = (IF f.type = "misc" THEN NoTag ELSE <<"a">>) }

(* ---- string formatting ---- *)
Digit(d) ==
  CASE d = 0 -> "0" [] d = 1 -> "1" [] d = 2 -> "2" [] d = 3 -> "3"
    [] d = 4 -> "4" [] d = 5 -> "5" [] d = 6 -> "6" [] d = 7 -> "7"
    [] d = 8 -> "8" [] d = 9 -> "9"

RECURSIVE Str(_)
\* str(n) for n >= 0, as the sequence of its decimal digits
Str(n) == IF n < 10 THEN <<Digit(n)>> ELSE Str(n \div 10) \o <<Digit(n % 10)>>

\* "{0}.mRNA.{1}".format(locus_tag, n)
RnaId(locus_tag, n) == locus_tag \o <<".mRNA.">> \o Str(n)
\* "{0}.CDS.{1}".format(rna_id, n)
CdsId(rna_id, n) == rna_id \o <<".CDS.">> \o Str(n)
\* "{0}.exon.{1}".format(rna_id, n)
ExonId(rna_id, n) == rna_id \o <<".exon.">> \o Str(n)

\* whatever is not forward is taken as reverse
StrandOf_NoRaise(f) == IF f.loc.strand = 1 THEN "+" ELSE "-"

\* the strand is validated for the three known feature types only
StrandOf_TypedOnly(f) ==
  IF f.loc.strand = 1 THEN "+"
  ELSE IF f.loc.strand = -1 THEN "-"
  ELSE IF f.type \in {"gene", "mRNA", "CDS"} THEN "?"
  ELSE "."

\* the strand decoding at the head of the feature loop; "?" stands for the raise
StrandOf(f) ==
  IF f.loc.strand = 1 THEN "+"
  ELSE IF f.loc.strand = -1 THEN "-"
  ELSE "?"

(* ---- dictionaries ---- *)
EmptyDict == [k \in {} |-> 0]
\* d[k] = v
Put(d, k, v) == [x \in (DOMAIN d) \cup {k} |-> IF x = k THEN v ELSE d[x]]
\* reading a defaultdict(int): a missing key reads 0
Get(d, k) == IF k \in DOMAIN d THEN d[k] ELSE 0

(* ---- output lines ---- *)
NoId == <<>>
\* ofh.write("##gff-version 3\n")
HeaderLine ==
  [kind |-> "header", mol |-> "", start |-> 0, end |-> 0, strand |-> "",
   phase |-> <<>>, id |-> NoId, parent |-> NoId, owner |-> 0, obj |-> 0]

VARIABLES
  status,            \* "running", "done" (input exhausted) or "aborted" (exception)
  error,             \* which exception ended the run ("" while none)
  inRecord,          \* TRUE while the features of a gb_record are iterated
  nRecords,          \* molecule records read so far
  nFeatures,         \* features read so far
  out,               \* lines written to ofh
  assemblies,        \* dict mol_id -> index into assemblyObjs
  assemblyObjs,      \* the biothings.Assembly objects, in creation order
  current_assembly,  \* index into assemblyObjs, 0 for None
  current_gene,      \* index into genes, 0 for None
  gene,              \* the local `gene`: index into genes, 0 while unbound
  current_RNA,       \* index into rnas, 0 for None
  rna_count_by_gene, \* defaultdict(int): locus tag -> count (absent keys read 0)
  exon_count_by_RNA, \* defaultdict(int): mRNA id -> count
  genes,             \* the biothings.Gene objects, in creation order
  rnas,              \* the biothings.mRNA objects, in creation order
  last               \* the step taken last: [op, feat, mol]

vars == <<status, error, inRecord, nRecords, nFeatures, out, assemblies,
          assemblyObjs, current_assembly, current_gene, gene, current_RNA,
          rna_count_by_gene, exon_count_by_RNA, genes, rnas, last>>

NoFeat == [type |-> "none", loc |-> [fmin |-> 0, fmax |-> 0, strand |-> 0],
           locus_tag |-> NoTag, product |-> FALSE]

Init ==
  /\ status = "running"
  /\ error = ""
  /\ inRecord = FALSE
  /\ nRecords = 0
  /\ nFeatures = 0
  /\ out = << HeaderLine >>
  /\ assemblies = EmptyDict
  /\ assemblyObjs = << >>
  /\ current_assembly = 0
  /\ current_gene = 0
  /\ gene = 0
  /\ current_RNA = 0
  /\ rna_count_by_gene = EmptyDict
  /\ exon_count_by_RNA = EmptyDict
  /\ genes = << >>
  /\ rnas = << >>
  /\ last = [op |-> "start", feat |-> NoFeat, mol |-> ""]

\* columns of one feature line: 1-based inclusive start from the half-open
\* interval; owner (the gene object printed) and obj (the object the line is
\* for) identify the objects and are not part of the text
FeatureLine(kind, o, phase, parentId, owner, obj) ==
  [kind |-> kind, mol |-> assemblyObjs[o.mol].id, start |-> o.fmin + 1,
   end |-> o.fmax, strand |-> o.strand, phase |-> phase, id |-> o.id,
   parent |-> parentId, owner |-> owner, obj |-> obj]

\* the lines of one child (CDS or exon) of mRNA r
ChildLine(g, r, k) ==
  LET c == rnas[r].children[k]
  IN FeatureLine(c.kind, c, IF c.kind = "CDS" THEN Str(c.phase) ELSE <<".">>,
                 rnas[c.parent].id, g, k)

\* the mRNA line followed by its children in the order they were attached
RnaLines(g, r) ==
  << FeatureLine("mRNA", rnas[r], <<".">>, genes[rnas[r].parent].id, g, r) >>
    \o [k \in 1..Len(rnas[r].children) |-> ChildLine(g, r, k)]

RECURSIVE AllRnaLines(_, _)
AllRnaLines(g, rs) ==
  IF rs = << >> THEN << >>
  ELSE RnaLines(g, Head(rs)) \o AllRnaLines(g, Tail(rs))

\* gene.print_as(fh=ofh, source='GenBank', format='gff3')
PrintGene(g) ==
  << FeatureLine("gene", genes[g], <<".">>, NoId, g, g) >>
    \o AllRnaLines(g, genes[g].mRNAs)

Running == status = "running"

Abort(e) ==
  /\ status' = "aborted"
  /\ error' = e

Continue == UNCHANGED <<status, error>>

\* every record gets a fresh Assembly
KnownMolecule_Never(mol) == FALSE

\* mol_id in assemblies
KnownMolecule(mol) == mol \in DOMAIN assemblies

\* the header is written at the head of every record
BeginRecord_WritesHeader(mol) ==
  /\ Running /\ ~inRecord /\ nRecords + nFeatures < MaxInput
  /\ inRecord' = TRUE
  /\ nRecords' = nRecords + 1
  /\ IF ~KnownMolecule(mol)
       THEN /\ assemblyObjs' = Append(assemblyObjs, [id |-> mol])
            /\ assemblies' = Put(assemblies, mol, Len(assemblyObjs) + 1)
       ELSE UNCHANGED <<assemblyObjs, assemblies>>
  /\ current_assembly' = assemblies'[mol]
  /\ out' = Append(out, HeaderLine)
  /\ last' = [op |-> "BeginRecord", feat |-> NoFeat, mol |-> mol]
  /\ UNCHANGED <<status, error, nFeatures, current_gene, gene,
                 current_RNA, rna_count_by_gene, exon_count_by_RNA, genes, rnas>>

\* for gb_record in SeqIO.parse(...): the next record is read and its
\* Assembly looked up or created
BeginRecord(mol) ==
  /\ Running /\ ~inRecord /\ nRecords + nFeatures < MaxInput
  /\ inRecord' = TRUE
  /\ nRecords' = nRecords + 1
  /\ IF ~KnownMolecule(mol)
       THEN /\ assemblyObjs' = Append(assemblyObjs, [id |-> mol])
            /\ assemblies' = Put(assemblies, mol, Len(assemblyObjs) + 1)
       ELSE UNCHANGED <<assemblyObjs, assemblies>>
  /\ current_assembly' = assemblies'[mol]
  /\ last' = [op |-> "BeginRecord", feat |-> NoFeat, mol |-> mol]
  /\ UNCHANGED <<status, error, nFeatures, out, current_gene, gene,
                 current_RNA, rna_count_by_gene, exon_count_by_RNA, genes, rnas>>

\* what every step on a feature does: take it from gb_record.features
ReadFeature(f) ==
  /\ Running /\ inRecord /\ nRecords + nFeatures < MaxInput
  /\ nFeatures' = nFeatures + 1
  /\ last' = [op |-> "Feature", feat |-> f, mol |-> assemblyObjs[current_assembly].id]
  /\ UNCHANGED <<inRecord, nRecords, assemblies, assemblyObjs, current_assembly>>

\* raise Exception("ERROR: unstranded feature encountered")
UnstrandedFeature(f) ==
  /\ ReadFeature(f)
  /\ StrandOf(f) = "?"
  /\ Abort("Unstranded")
  /\ UNCHANGED <<out, current_gene, gene, current_RNA, rna_count_by_gene,
                 exon_count_by_RNA, genes, rnas>>

\* a gene without transcripts is not printed
Flushed_OnlyWithRna ==
  IF current_gene # 0 /\ genes[gene].mRNAs # << >>
    THEN out \o PrintGene(gene) ELSE out

\* if current_gene is not None: gene.print_as(...) -- what the gene branch
\* and the end of a record's feature loop have written afterwards
Flushed == IF current_gene # 0 THEN out \o PrintGene(gene) ELSE out

\* biothings.Gene(id=locus_tag) located on current_assembly; rec notes the
\* record the gene was read in and is not a field of the object
NewGene(f) ==
  [id |-> f.locus_tag, mol |-> current_assembly, fmin |-> f.loc.fmin,
   fmax |-> f.loc.fmax, strand |-> StrandOf(f), mRNAs |-> << >>,
   rec |-> nRecords]

\* the transcript context after a gene record: the branch does not assign
\* current_RNA
RnaAfterGene == current_RNA

\* the locus tag is read before the previous gene is printed
GeneFeature_TagFirst(f) ==
  /\ ReadFeature(f)
  /\ StrandOf(f) # "?"
  /\ f.type = "gene"
  /\ IF f.locus_tag = NoTag
       THEN /\ Abort("KeyError:locus_tag")
            /\ UNCHANGED <<out, genes, gene, current_gene, current_RNA>>
       ELSE /\ Continue
            /\ out' = Flushed
            /\ genes' = Append(genes, NewGene(f))
            /\ gene' = Len(genes) + 1
            /\ current_gene' = gene'
            /\ current_RNA' = RnaAfterGene
  /\ UNCHANGED <<rna_count_by_gene, exon_count_by_RNA, rnas>>

\* elif-chain, feat.type == 'gene'
GeneFeature(f) ==
  /\ ReadFeature(f)
  /\ StrandOf(f) # "?"
  /\ f.type = "gene"
  /\ out' = Flushed
  /\ IF f.locus_tag = NoTag
       THEN \* feat.qualifiers['locus_tag'] raises KeyError
            /\ Abort("KeyError:locus_tag")
            /\ UNCHANGED <<genes, gene, current_gene, current_RNA>>
       ELSE /\ Continue
            /\ genes' = Append(genes, NewGene(f))
            /\ gene' = Len(genes) + 1
            /\ current_gene' = gene'
            /\ current_RNA' = RnaAfterGene
  /\ UNCHANGED <<rna_count_by_gene, exon_count_by_RNA, rnas>>

\* the transcripts are counted per open gene instead of per locus tag
RnaCountAfter_PerGene(locus_tag) ==
  IF gene = 0 THEN 1 ELSE Len(genes[gene].mRNAs) + 1

\* rna_count_by_gene[locus_tag] += 1
RnaCountAfter(locus_tag) == Get(rna_count_by_gene, locus_tag) + 1

\* the parent is the gene created before the open one
RnaParent_Previous == IF current_gene > 1 THEN current_gene - 1 ELSE current_gene

\* parent=current_gene
RnaParent == current_gene

\* biothings.mRNA(id=feat_id, parent=current_gene) located on current_assembly;
\* locus_tag notes the qualifier of the record and is not a field of the object
NewRNA(f, feat_id) ==
  [id |-> feat_id, parent |-> RnaParent, mol |-> current_assembly,
   fmin |-> f.loc.fmin, fmax |-> f.loc.fmax, strand |-> StrandOf(f),
   children |-> << >>, locus_tag |-> f.locus_tag]

\* gene.add_mRNA(mRNA)
AddRNA(g, r) == [genes EXCEPT ![g].mRNAs = Append(@, r)]

\* an mRNA read while the local `gene` was never assigned is created and kept
\* as the open transcript instead of failing
GeneUnbound_Tolerated == FALSE

\* gene.add_mRNA(mRNA) while the local `gene` was never assigned
GeneUnbound == gene = 0

\* elif-chain, feat.type == 'mRNA'
MRNAFeature(f) ==
  /\ ReadFeature(f)
  /\ StrandOf(f) # "?"
  /\ f.type = "mRNA"
  /\ UNCHANGED <<out, gene, current_gene>>
  /\ IF f.locus_tag = NoTag
       THEN /\ Abort("KeyError:locus_tag")
            /\ UNCHANGED <<rna_count_by_gene, exon_count_by_RNA, genes, rnas,
                           current_RNA>>
       ELSE LET n == RnaCountAfter(f.locus_tag)
                feat_id == RnaId(f.locus_tag, n)
            IN /\ rna_count_by_gene' = Put(rna_count_by_gene, f.locus_tag, n)
               /\ IF GeneUnbound
                    THEN \* gene.add_mRNA: the local `gene` is unbound
                         /\ Abort("UnboundLocalError:gene")
                         /\ UNCHANGED <<exon_count_by_RNA, genes, rnas, current_RNA>>
                    ELSE /\ rnas' = Append(rnas, NewRNA(f, feat_id))
                         /\ genes' = AddRNA(gene, Len(rnas) + 1)
                         /\ current_RNA' = Len(rnas) + 1
                         /\ IF feat_id \in DOMAIN exon_count_by_RNA
                              THEN /\ Abort("DuplicateId")
                                   /\ UNCHANGED exon_count_by_RNA
                              ELSE /\ Continue
                                   /\ exon_count_by_RNA' =
                                        Put(exon_count_by_RNA, feat_id, 0)

\* the counter is assigned 1 instead of incremented
ExonCountAfter_Assigned(rna_id) == 1

\* exon_count_by_RNA[current_RNA.id] += 1
ExonCountAfter(rna_id) == Get(exon_count_by_RNA, rna_id) + 1

\* biothings.CDS / biothings.Exon(id=..., parent=current_RNA) located on
\* current_assembly; the CDS with phase=0
NewChild(kind, f, id) ==
  [kind |-> kind, id |-> id, parent |-> current_RNA, mol |-> current_assembly,
   fmin |-> f.loc.fmin, fmax |-> f.loc.fmax, strand |-> StrandOf(f),
   phase |-> 0]

\* current_RNA.add_CDS(CDS) and then current_RNA.add_exon(exon)
AddChildren(r, cds, exon) ==
  [rnas EXCEPT ![r].children = Append(Append(@, cds), exon)]

\* elif-chain, feat.type == 'CDS'
CDSFeature(f) ==
  /\ ReadFeature(f)
  /\ StrandOf(f) # "?"
  /\ f.type = "CDS"
  /\ UNCHANGED <<out, gene, current_gene, current_RNA, rna_count_by_gene, genes>>
  /\ IF f.locus_tag = NoTag
       THEN /\ Abort("KeyError:locus_tag")
            /\ UNCHANGED <<exon_count_by_RNA, rnas>>
       ELSE IF current_RNA = 0
       THEN \* current_RNA.id on None
            /\ Abort("AttributeError:current_RNA")
            /\ UNCHANGED <<exon_count_by_RNA, rnas>>
       ELSE LET rid == rnas[current_RNA].id
                n == ExonCountAfter(rid)
            IN /\ exon_count_by_RNA' = Put(exon_count_by_RNA, rid, n)
               /\ rnas' = AddChildren(current_RNA,
                                      NewChild("CDS", f, CdsId(rid, n)),
                                      NewChild("exon", f, ExonId(rid, n)))
               /\ IF f.product
                    THEN Continue
                    ELSE \* feat.qualifiers['product'] raises KeyError
                         Abort("KeyError:product")

\* the skipped feature closes the open transcript
SkippedFeature_ClosesRna(f) ==
  /\ ReadFeature(f)
  /\ StrandOf(f) # "?"
  /\ f.type \notin {"gene", "mRNA", "CDS"}
  /\ Continue
  /\ current_RNA' = 0
  /\ UNCHANGED <<out, gene, current_gene, rna_count_by_gene,
                 exon_count_by_RNA, genes, rnas>>

\* else: print("WARNING: The following feature was skipped")
SkippedFeature(f) ==
  /\ ReadFeature(f)
  /\ StrandOf(f) # "?"
  /\ f.type \notin {"gene", "mRNA", "CDS"}
  /\ Continue
  /\ UNCHANGED <<out, gene, current_gene, current_RNA, rna_count_by_gene,
                 exon_count_by_RNA, genes, rnas>>

\* the last gene is forgotten
EndRecord_NoFlush ==
  /\ Running /\ inRecord
  /\ inRecord' = FALSE
  /\ last' = [op |-> "EndRecord", feat |-> NoFeat, mol |-> assemblyObjs[current_assembly].id]
  /\ UNCHANGED <<status, error, nRecords, nFeatures, assemblies, assemblyObjs,
                 current_assembly, current_gene, gene, current_RNA, out,
                 rna_count_by_gene, exon_count_by_RNA, genes, rnas>>

\* the feature loop of a record is exhausted: "don't forget to do the last
\* gene", inside the loop over records
EndRecord ==
  /\ Running /\ inRecord
  /\ inRecord' = FALSE
  /\ out' = Flushed
  /\ last' = [op |-> "EndRecord", feat |-> NoFeat, mol |-> assemblyObjs[current_assembly].id]
  /\ UNCHANGED <<status, error, nRecords, nFeatures, assemblies, assemblyObjs,
                 current_assembly, current_gene, gene, current_RNA,
                 rna_count_by_gene, exon_count_by_RNA, genes, rnas>>

\* SeqIO.parse yields no further record: main() returns
Finish ==
  /\ Running /\ ~inRecord
  /\ status' = "done"
  /\ last' = [op |-> "Finish", feat |-> NoFeat, mol |-> ""]
  /\ UNCHANGED <<error, inRecord, nRecords, nFeatures, out, assemblies,
                 assemblyObjs, current_assembly, current_gene, gene, current_RNA,
                 rna_count_by_gene, exon_count_by_RNA, genes, rnas>>

Next ==
  \/ \E mol \in MolIds : BeginRecord(mol)
  \/ \E f \in Features : UnstrandedFeature(f)
  \/ \E f \in Features : GeneFeature(f)
  \/ \E f \in Features : MRNAFeature(f)
  \/ \E f \in Features : CDSFeature(f)
  \/ \E f \in Features : SkippedFeature(f)
  \/ EndRecord
  \/ Finish

Spec == Init /\ [][Next]_vars

\* the interpreter always executes the next statement of the single thread
FairSpec == Spec /\ WF_vars(Next)

(***************************************************************************)
(* Vocabulary of the properties                                            *)
(***************************************************************************)
\* the step taken last read a feature of type t with a forward/reverse strand
LastFeature(t) ==
  /\ last.op = "Feature"
  /\ last.feat.type = t
  /\ last.feat.loc.strand \in {1, -1}

\* indices of the lines of kind k written for object o
LinesOf(k, o) == { i \in DOMAIN out : out[i].kind = k /\ out[i].obj = o }

\* the last step attached a CDS and its exon to the open transcript
CdsAttached ==
  /\ LastFeature("CDS")
  /\ \/ status = "running"
     \/ error = "KeyError:product"

\* no mRNA has been attached since the most recent gene record
NoRnaSinceGene == current_gene = 0 \/ genes[current_gene].mRNAs = << >>

(***************************************************************************)
(* C1: every gene record of a run without a fatal error produces exactly   *)
(* one gene line: never more than one, and one once the input is exhausted,*)
(* also with several molecule records or a record without genes.           *)
(***************************************************************************)
C1_GeneWrittenExactlyOnce ==
  \A g \in DOMAIN genes :
    /\ Cardinality(LinesOf("gene", g)) <= 1
    /\ (status = "done" => Cardinality(LinesOf("gene", g)) = 1)

(***************************************************************************)
(* C2: reaching the end of a molecule record's features writes nothing;    *)
(* output is written only by the step that processes a gene record or when *)
(* the whole input is exhausted.                                           *)
(***************************************************************************)
C2_NoWriteAtRecordEnd ==
  [][ /\ (last'.op = "EndRecord" => out' = out)
      /\ (out' # out => \/ (last'.op = "Feature" /\ last'.feat.type = "gene")
                        \/ last'.op = "Finish") ]_vars

(***************************************************************************)
(* C3: a gene record clears the open transcript, and a CDS record read     *)
(* when no mRNA record was read since the most recent gene record aborts   *)
(* the run without attaching the CDS to any transcript.                    *)
(***************************************************************************)
C3_CdsWithoutRnaAborts ==
  /\ (LastFeature("gene") /\ status = "running" => current_RNA = 0)
  /\ (LastFeature("CDS") /\ NoRnaSinceGene =>
        /\ status = "aborted"
        /\ ~CdsAttached)

(***************************************************************************)
(* C4: an mRNA record with a valid strand and a locus tag, read when no    *)
(* gene record has been processed yet, aborts the run; no transcript is    *)
(* attached to any gene and nothing is written for it.                     *)
(***************************************************************************)
C4_RnaBeforeAnyGeneAborts ==
  (LastFeature("mRNA") /\ last.feat.locus_tag # NoTag /\ genes = << >>) =>
    /\ status = "aborted"
    /\ rnas = << >>
    /\ current_RNA = 0
    /\ out = << HeaderLine >>

C4_Witness ==
  /\ LastFeature("mRNA") /\ last.feat.locus_tag # NoTag /\ genes = << >>
  /\ error = "UnboundLocalError:gene"
  /\ nRecords = 2

(***************************************************************************)
(* C5: the i-th mRNA record carrying locus tag L, counted over the whole   *)
(* run across genes and molecule records, gets the identifier L.mRNA.i;    *)
(* the counter of L equals the number of such records and never goes back. *)
(***************************************************************************)
\* the transcripts made from the mRNA records with locus tag L, in order
RnasOfTag(L) == SelectSeq(rnas, LAMBDA r : r.locus_tag = L)

C5_RnaIdsCountPerLocusTag ==
  \A L \in LocusTags :
    /\ \A i \in 1..Len(RnasOfTag(L)) : RnasOfTag(L)[i].id = RnaId(L, i)
    /\ (error # "UnboundLocalError:gene" =>
          Get(rna_count_by_gene, L) = Len(RnasOfTag(L)))

\* two transcripts of one locus tag under different genes
C5_Witness ==
  \E L \in LocusTags :
    /\ Len(RnasOfTag(L)) = 2
    /\ RnasOfTag(L)[1].parent # RnasOfTag(L)[2].parent
    /\ RnasOfTag(L)[2].id = L \o <<".mRNA.", "2">>
    /\ Len(rnas) = 2

(***************************************************************************)
(* C6: the k-th CDS record read while transcript T is open makes one       *)
(* coding segment T.CDS.k and one exon T.exon.k, both attached to T with   *)
(* the record's interval and strand; T's counter starts at 0 and counts    *)
(* the CDS records.                                                        *)
(***************************************************************************)
C6_PairedChildren ==
  /\ \A r \in DOMAIN rnas :
       LET T == rnas[r]
           n == Get(exon_count_by_RNA, T.id)
       IN /\ T.id \in DOMAIN exon_count_by_RNA \/ error = "DuplicateId"
          /\ Len(T.children) = 2 * n
          /\ \A k \in 1..n :
               LET cds == T.children[2 * k - 1]
                   exon == T.children[2 * k]
               IN /\ cds.kind = "CDS" /\ cds.id = T.id \o <<".CDS.">> \o Str(k)
                  /\ exon.kind = "exon" /\ exon.id = T.id \o <<".exon.">> \o Str(k)
                  /\ cds.parent = r /\ exon.parent = r
                  /\ cds.fmin = exon.fmin /\ cds.fmax = exon.fmax
                  /\ cds.strand = exon.strand
  /\ (LastFeature("mRNA") /\ status = "running" =>
        /\ rnas[current_RNA].children = << >>
        /\ exon_count_by_RNA[rnas[current_RNA].id] = 0)
  /\ (CdsAttached =>
        LET ch == rnas[current_RNA].children
        IN \A c \in {ch[Len(ch) - 1], ch[Len(ch)]} :
             /\ c.fmin = last.feat.loc.fmin
             /\ c.fmax = last.feat.loc.fmax
             /\ c.strand = (IF last.feat.loc.strand = 1 THEN "+" ELSE "-"))

\* a second CDS record under one transcript, on the other strand than the first
C6_Witness ==
  /\ CdsAttached
  /\ Len(rnas[current_RNA].children) = 4
  /\ rnas[current_RNA].children[1].strand # rnas[current_RNA].children[3].strand
  /\ rnas[current_RNA].children[4].id = rnas[current_RNA].id \o <<".exon.", "2">>

(***************************************************************************)
(* C7: every transcript line names as parent the gene whose line most      *)
(* recently precedes it in the output, and that gene is the one that was   *)
(* open when the mRNA record was read, whatever the record's locus tag.    *)
(***************************************************************************)
\* index of the last gene line before line i (0 if there is none)
GeneLineBefore(i) ==
  LET js == { j \in 1..(i - 1) : out[j].kind = "gene" }
  IN IF js = {} THEN 0 ELSE CHOOSE j \in js : \A k \in js : k <= j

C8_UnstrandedAborts ==
  [][ /\ (last'.op = "Feature" /\ last'.feat.loc.strand \notin {1, -1} =>
            /\ status' = "aborted"
            /\ error' = "Unstranded"
            /\ UNCHANGED <<out, genes, rnas, current_gene, current_RNA>>)
      /\ (status = "aborted" => out' = out) ]_vars

\* an abort on an unstranded feature while a gene that was never written is
\* open, after an earlier gene was written
C8_Witness ==
  /\ status = "aborted" /\ error = "Unstranded"
  /\ current_gene = 2
  /\ LinesOf("gene", 2) = {}
  /\ LinesOf("gene", 1) # {}

(***************************************************************************)
(* C9: a feature of another type than gene, mRNA or CDS, with a forward or *)
(* reverse strand, leaves the open gene, the open transcript, both         *)
(* counters, the attached descendants and the output unchanged, and the    *)
(* run goes on.                                                            *)
(***************************************************************************)
C9_SkippedFeatureChangesNothing ==
  [][ ( /\ last'.op = "Feature"
        /\ last'.feat.type \notin {"gene", "mRNA", "CDS"}
        /\ last'.feat.loc.strand \in {1, -1} ) =>
      /\ UNCHANGED <<current_gene, gene, current_RNA, rna_count_by_gene,
                     exon_count_by_RNA, genes, rnas, out>>
      /\ status' = "running" ]_vars

\* a feature skipped between a gene and a later mRNA record while an earlier
\* transcript is open
C9_Witness ==
  /\ LastFeature("misc")
  /\ status = "running"
  /\ current_gene = 2 /\ current_RNA = 1
  /\ genes[2].mRNAs = << >>

(***************************************************************************)
(* C10: of two consecutive gene records G1, G2 in one molecule record, G1  *)
(* is written by the step that reads G2 and not before, and whatever is    *)
(* read after G2 is attached under G2, never under G1.                     *)
(***************************************************************************)
C10_FlushAtNextGene ==
  [][ /\ ( /\ last'.op = "Feature" /\ last'.feat.type = "gene"
            /\ last'.feat.loc.strand \in {1, -1}
            /\ current_gene # 0
            /\ genes[current_gene].rec = nRecords ) =>
          /\ LinesOf("gene", current_gene) = {}
          /\ out' = out \o PrintGene(current_gene)
      /\ (CdsAttached' => rnas'[current_RNA'].parent = current_gene')
      /\ (LastFeature("mRNA")' /\ status' = "running" =>
            rnas'[current_RNA'].parent = current_gene') ]_vars

(***************************************************************************)
(* C11: a run on a finite input without a fatal error terminates, and when *)
(* it has, every gene record read has been written, the gene left open     *)
(* after the last feature included; without gene records only the header   *)
(* is written.                                                             *)
(***************************************************************************)
C11_TerminatesWithAllGenesWritten ==
  /\ <>(status # "running")
  /\ [](status = "done" =>
         /\ \A g \in DOMAIN genes : LinesOf("gene", g) # {}
         /\ (genes = << >> => out = << HeaderLine >>))

\* the input is exhausted with two genes read, the second left open at the
\* end of the last record
C11_Witness ==
  /\ status = "done"
  /\ Len(genes) = 2 /\ current_gene = 2
  /\ genes[1].rec # genes[2].rec
  /\ LinesOf("gene", 2) # {}

(***************************************************************************)
(* C12: a gene record without the locus-tag qualifier aborts the run: no   *)
(* gene is created or opened, and the gene open before it has been flushed *)
(* first, so its subgraph ends the output at the abort.                    *)
(***************************************************************************)
C12_GeneWithoutTagAbortsAfterFlush ==
  [][ ( /\ last'.op = "Feature" /\ last'.feat.type = "gene"
        /\ last'.feat.loc.strand \in {1, -1}
        /\ last'.feat.locus_tag = NoTag ) =>
      /\ status' = "aborted" /\ error' = "KeyError:locus_tag"
      /\ UNCHANGED <<genes, gene, current_gene, current_RNA, rnas>>
      /\ out' = (IF current_gene = 0 THEN out
                                    ELSE out \o PrintGene(current_gene)) ]_vars

\* the abort on a gene record without locus tag, the open gene and its
\* transcript written by that step only
C12_Witness ==
  /\ LastFeature("gene") /\ last.feat.locus_tag = NoTag
  /\ status = "aborted"
  /\ current_gene = 1 /\ genes[1].mRNAs = << 1 >>
  /\ Len(out) = 3
  /\ out[2].kind = "gene" /\ out[3].kind = "mRNA"

(***************************************************************************)
(* C13: in every run, also on empty input and in runs that abort, the      *)
(* output begins with the one header line, written before any record is    *)
(* read, and no second header line is ever written.                        *)
(***************************************************************************)
C13_SingleHeaderFirst ==
  /\ Len(out) >= 1
  /\ out[1] = HeaderLine
  /\ \A i \in 2..Len(out) : out[i].kind # "header"

\* an aborted run over two molecule records that wrote a gene
C13_Witness ==
  /\ status = "aborted"
  /\ nRecords = 2
  /\ Len(out) > 1

(***************************************************************************)
(* C14: at most one gene is held that has not been written: every gene     *)
(* created before the open one has its line in the output.                 *)
(***************************************************************************)
C14_OnlyOpenGeneUnwritten ==
  \A g \in DOMAIN genes : LinesOf("gene", g) = {} => g = current_gene

\* a third gene just opened and unwritten, the two before it written
C14_Witness ==
  /\ Len(genes) = 3 /\ current_gene = 3
  /\ LinesOf("gene", 3) = {}
  /\ LinesOf("gene", 1) # {} /\ LinesOf("gene", 2) # {}
  /\ genes[1].mRNAs = << >>

(***************************************************************************)
(* C15: the registry holds exactly one Assembly per molecule identifier    *)
(* seen: made when the first record with the identifier is read, never     *)
(* removed or replaced, and used again by a later record with the same     *)
(* identifier, whose features are placed on it.                            *)
(***************************************************************************)
RegistryOk ==
  /\ Len(assemblyObjs) = Cardinality(DOMAIN assemblies)
  /\ \A m \in DOMAIN assemblies :
       /\ assemblies[m] \in DOMAIN assemblyObjs
       /\ assemblyObjs[assemblies[m]].id = m

C15_OneAssemblyPerMolecule ==
  [][ /\ RegistryOk'
      /\ \A m \in DOMAIN assemblies :
           m \in DOMAIN assemblies' /\ assemblies'[m] = assemblies[m]
      /\ SubSeq(assemblyObjs', 1, Len(assemblyObjs)) = assemblyObjs
      /\ IF last'.op = "BeginRecord"
           THEN /\ DOMAIN assemblies' = DOMAIN assemblies \cup {last'.mol}
                /\ current_assembly' = assemblies'[last'.mol]
           ELSE UNCHANGED <<assemblies, assemblyObjs, current_assembly>>
      /\ (LastFeature("gene")' /\ status' = "running" =>
            genes'[current_gene'].mol = current_assembly') ]_vars

\* a gene read in a third record, which names the molecule of the first
\* after a record of another molecule
C15_Witness ==
  /\ nRecords = 3
  /\ Len(assemblyObjs) = 2
  /\ LastFeature("gene") /\ status = "running"
  /\ current_assembly = 1
  /\ genes[current_gene].mol = 1

(***************************************************************************)
(* C16: the synthesized transcript identifiers are pairwise distinct, and  *)
(* the abort on a duplicate identifier is never reached.                   *)
(***************************************************************************)
C16_RnaIdsDistinct ==
  /\ error # "DuplicateId"
  /\ \A r1, r2 \in DOMAIN rnas : r1 # r2 => rnas[r1].id # rnas[r2].id

\* three transcripts: two of locus tag "a" around one whose locus tag is
\* the identifier of the first
C16_Witness ==
  /\ Len(rnas) = 3
  /\ rnas[1].locus_tag = <<"a">> /\ rnas[3].locus_tag = <<"a">>
  /\ rnas[2].locus_tag = rnas[1].id

(***************************************************************************)
(* C17: when a run without a fatal error ends, every CDS record that was   *)
(* attached to a transcript has its coding-segment line and its exon line  *)
(* in the output.                                                          *)
(***************************************************************************)
C17_AttachedCdsWritten ==
  status = "done" =>
    \A r \in DOMAIN rnas : \A k \in DOMAIN rnas[r].children :
      \E i \in DOMAIN out :
        /\ out[i].kind = rnas[r].children[k].kind
        /\ out[i].id = rnas[r].children[k].id

(***************************************************************************)
(* C18: in every written gene subgraph the transcripts, coding segments    *)
(* and exons lie on the molecule of their gene, also when they were read   *)
(* in a later molecule record than the gene.                               *)
(***************************************************************************)
C18_SubgraphOnOneMolecule ==
  \A i \in DOMAIN out :
    out[i].kind \in {"mRNA", "CDS", "exon"} =>
      out[i].mol = assemblyObjs[genes[out[i].owner].mol].id

(***************************************************************************)
(* C19: the strand is validated before the dispatch on the feature type:   *)
(* a feature of an unrecognized type is skipped, and the run goes on, only *)
(* if its strand is forward or reverse; otherwise the run aborts.          *)
(***************************************************************************)
C19_StrandCheckedBeforeDispatch ==
  [][ ( /\ last'.op = "Feature"
        /\ last'.feat.type \notin {"gene", "mRNA", "CDS"} ) =>
      IF last'.feat.loc.strand \in {1, -1}
        THEN status' = "running"
        ELSE status' = "aborted" /\ error' = "Unstranded" ]_vars

\* the abort on an unstranded feature of an unrecognized type, read while
\* a gene is open
C19_Witness ==
  /\ last.op = "Feature" /\ last.feat.type = "misc"
  /\ last.feat.loc.strand = 0
  /\ error = "Unstranded"
  /\ current_gene # 0

(***************************************************************************)
(* C20: a CDS record without 'product' aborts the run although a           *)
(* transcript is open and the strand valid; the coding segment and the     *)
(* exon are attached and counted by then, and the gene open at that moment *)
(* is never written.                                                       *)
(***************************************************************************)
C20_CdsWithoutProductAborts ==
  ( /\ LastFeature("CDS")
    /\ last.feat.locus_tag # NoTag /\ ~last.feat.product
    /\ current_RNA # 0 ) =>
  LET T == rnas[current_RNA]
      n == Get(exon_count_by_RNA, T.id)
  IN /\ status = "aborted" /\ error = "KeyError:product"
     /\ n >= 1 /\ Len(T.children) = 2 * n
     /\ T.children[2 * n - 1].id = T.id \o <<".CDS.">> \o Str(n)
     /\ T.children[2 * n].id = T.id \o <<".exon.">> \o Str(n)
     /\ LinesOf("gene", current_gene) = {}

====
